---- MODULE Spec2Model ----
(***************************************************************************)
(* MSES closed-curve manipulation (PJ6/mses.py): FindLE, MsesSplit,        *)
(* MsesInterp and MsesMerge, applied by a caller to a loaded curve (x, y)  *)
(* or to a pair of surfaces.                                               *)
(*                                                                         *)
(* Python sequences are 0-based; TLA+ sequences are 1-based.  Indices that *)
(* the program returns or computes (FindLE's result, slice starts) are     *)
(* kept 0-based as in the source, and Py(s, i) reads the element at the    *)
(* 0-based position i.                                                     *)
(*                                                                         *)
(* A call's outcome is a record whose field exc names the exception the    *)
(* call raised ("" when it returned).                                      *)
(***************************************************************************)
EXTENDS Integers, Sequences, FiniteSets, TLC

VARIABLES x, y, xout, op, exc, iLE, xup, xlo, yup, ylo, xm, ym, yupInterp, yloInterp

vars == <<x, y, xout, op, exc, iLE, xup, xlo, yup, ylo, xm, ym, yupInterp, yloInterp>>

\* ------------------------------------------------------------------ bounds
\* longest curve (number of points) the caller loads
MaxLen == 4
\* x coordinates are drawn from 1..MaxX
MaxX == 3
\* longest surface handed directly to MsesMerge
MaxSurf == 2
\* highest trailing-edge x of the synthetic V-shaped curves
MaxPeak == 5

XVals == 1..MaxX
\* data values: zero (the leading-edge z of a geometry file) and non-zero
YVals == {0, 1}

SeqsUpTo(S, n) == UNION {[1..k -> S] : k \in 0..n}
NonEmptySeqsUpTo(S, n) == UNION {[1..k -> S] : k \in 1..n}

\* ------------------------------------------------------- Python sequences
\* s[i] for a 0-based i within range
Py(s, i) == s[i + 1]

\* s[start::-1] : from min(start, len-1) down to position 0
PySliceDown(s, start) ==
    LET top == IF start < Len(s) - 1 THEN start ELSE Len(s) - 1
    IN  [j \in 1..(top + 1) |-> Py(s, top + 1 - j)]

\* s[start:] : from position start to the end (empty when start >= len)
PySliceFrom(s, start) ==
    IF start >= Len(s) THEN <<>> ELSE SubSeq(s, start + 1, Len(s))

\* s[-1::-1] : the whole sequence reversed
PyReversed(s) == [j \in 1..Len(s) |-> s[Len(s) + 1 - j]]

\* ------------------------------------------------------------------ FindLE
NoneValue == [none |-> TRUE, i |-> 0]
Index(i) == [none |-> FALSE, i |-> i]

\* for i, x in enumerate(X[1:]): if x >= xold: return i else: xold = x
RECURSIVE FindLEScan(_, _, _)
FindLEScan(X, i, xold) ==
    IF i + 1 >= Len(X)
    THEN NoneValue
    ELSE IF Py(X, i + 1) >= xold
         THEN Index(i)
         ELSE FindLEScan(X, i + 1, Py(X, i + 1))

\* the mutant of FindLE: a strict comparison, a plateau is not a split point
RECURSIVE FindLEScanStrict(_, _, _)
FindLEScanStrict(X, i, xold) ==
    IF i + 1 >= Len(X)
    THEN NoneValue
    ELSE IF Py(X, i + 1) > xold
         THEN Index(i)
         ELSE FindLEScanStrict(X, i + 1, Py(X, i + 1))

FindLEStrict(X) ==
    IF Len(X) = 0
    THEN [exc |-> "IndexError", ret |-> NoneValue]
    ELSE [exc |-> "", ret |-> FindLEScanStrict(X, 0, Py(X, 0))]

\* the mutant of FindLE: the index of the point after the leading edge
FindLENext(X) ==
    IF Len(X) = 0
    THEN [exc |-> "IndexError", ret |-> NoneValue]
    ELSE LET r == FindLEScan(X, 0, Py(X, 0))
         IN  [exc |-> "", ret |-> IF r.none THEN r ELSE Index(r.i + 1)]

\* xold = X[0] raises IndexError on an empty X; a loop that never returns
\* falls off the end of the function, which returns None
FindLE(X) ==
    IF Len(X) = 0
    THEN [exc |-> "IndexError", ret |-> NoneValue]
    ELSE [exc |-> "", ret |-> FindLEScan(X, 0, Py(X, 0))]

\* --------------------------------------------------------------- MsesSplit
\* the mutant of MsesSplit: the lower surface starts at the leading edge
MsesSplitFromLE(xs, ys) ==
    LET le == FindLE(xs)
    IN  IF le.exc # ""
        THEN [exc |-> le.exc, up |-> <<>>, lo |-> <<>>]
        ELSE IF le.ret.none
             THEN [exc |-> "TypeError", up |-> <<>>, lo |-> <<>>]
             ELSE [exc |-> "",
                   up  |-> PySliceDown(ys, le.ret.i),
                   lo  |-> PySliceFrom(ys, le.ret.i)]

\* the mutant of MsesSplit: the upper surface is not reversed
MsesSplitForward(xs, ys) ==
    LET le == FindLE(xs)
    IN  IF le.exc # ""
        THEN [exc |-> le.exc, up |-> <<>>, lo |-> <<>>]
        ELSE IF le.ret.none
             THEN [exc |-> "TypeError", up |-> <<>>, lo |-> <<>>]
             ELSE [exc |-> "",
                   up  |-> PyReversed(PySliceDown(ys, le.ret.i)),
                   lo  |-> PySliceFrom(ys, le.ret.i + 1)]

\* iLE = FindLE(x); up = y[iLE::-1]; lo = y[iLE+1:]
\* With iLE = None, y[None::-1] is the whole of y reversed and None + 1
\* raises TypeError.
MsesSplit(xs, ys) ==
    LET le == FindLE(xs)
    IN  IF le.exc # ""
        THEN [exc |-> le.exc, up |-> <<>>, lo |-> <<>>]
        ELSE IF le.ret.none
             THEN [exc |-> "TypeError", up |-> <<>>, lo |-> <<>>]
             ELSE [exc |-> "",
                   up  |-> PySliceDown(ys, le.ret.i),
                   lo  |-> PySliceFrom(ys, le.ret.i + 1)]

\* --------------------------------------------------------------- np.interp
\* Interpolated values are exact rationals <<numerator, denominator>> in
\* lowest terms with a positive denominator.
RECURSIVE GCD(_, _)
GCD(a, b) == IF b = 0 THEN a ELSE GCD(b, a % b)

Abs(n) == IF n < 0 THEN -n ELSE n

Rat(n, d) ==
    LET g == GCD(Abs(n), d)
    IN  IF n >= 0 THEN <<n \div g, d \div g>> ELSE <<-(Abs(n) \div g), d \div g>>

Exact(v) == <<v, 1>>

\* numpy's search of the sample points: -1 below xp[0], len above xp[len-1],
\* otherwise one less than the first position i >= 1 with key < xp[i]
\* (len - 1 when there is none).  On ascending xp this is the last j with
\* xp[j] <= key.
RECURSIVE SearchFrom(_, _, _)
SearchFrom(key, xp, i) ==
    IF i < Len(xp) /\ key >= Py(xp, i)
    THEN SearchFrom(key, xp, i + 1)
    ELSE i - 1

BinarySearch(key, xp) ==
    IF key > Py(xp, Len(xp) - 1) THEN Len(xp)
    ELSE IF key < Py(xp, 0) THEN -1
    ELSE SearchFrom(key, xp, 1)

\* one output value of np.interp: left = fp[0], right = fp[-1]
InterpAt(xv, xp, fp) ==
    LET j == BinarySearch(xv, xp)
    IN  IF j = -1 THEN Exact(Py(fp, 0))
        ELSE IF j = Len(xp) THEN Exact(Py(fp, Len(fp) - 1))
        ELSE IF j = Len(xp) - 1 THEN Exact(Py(fp, j))
        ELSE IF Py(xp, j) = xv THEN Exact(Py(fp, j))
        ELSE LET dx == Py(xp, j + 1) - Py(xp, j)
                 dy == Py(fp, j + 1) - Py(fp, j)
             IN  Rat(Py(fp, j) * dx + dy * (xv - Py(xp, j)), dx)

\* np.interp(x, xp, fp): ValueError on empty sample points or on fp and xp
\* of different lengths; xp is not checked to be ascending
NpInterp(xs, xp, fp) ==
    IF Len(xp) = 0 \/ Len(fp) # Len(xp)
    THEN [exc |-> "ValueError", val |-> <<>>]
    ELSE [exc |-> "", val |-> [k \in 1..Len(xs) |-> InterpAt(xs[k], xp, fp)]]

\* -------------------------------------------------------------- MsesInterp
\* the mutant of MsesInterp: each surface interpolated on the other's data
MsesInterpSwapped(xo, xmses, ymses) ==
    LET sx == MsesSplit(xmses, xmses)
        sy == MsesSplit(xmses, ymses)
    IN  IF sx.exc # ""
        THEN [exc |-> sx.exc, yup |-> <<>>, ylo |-> <<>>]
        ELSE LET u == NpInterp(xo, sx.lo, sy.lo)
                 l == NpInterp(xo, sx.up, sy.up)
             IN  IF u.exc # "" THEN [exc |-> u.exc, yup |-> <<>>, ylo |-> <<>>]
                 ELSE IF l.exc # "" THEN [exc |-> l.exc, yup |-> <<>>, ylo |-> <<>>]
                 ELSE [exc |-> "", yup |-> u.val, ylo |-> l.val]

\* both splits use the same x, so the second raises exactly when the first does
MsesInterp(xo, xmses, ymses) ==
    LET sx == MsesSplit(xmses, xmses)
        sy == MsesSplit(xmses, ymses)
    IN  IF sx.exc # ""
        THEN [exc |-> sx.exc, yup |-> <<>>, ylo |-> <<>>]
        ELSE LET u == NpInterp(xo, sx.up, sy.up)
                 l == NpInterp(xo, sx.lo, sy.lo)
             IN  IF u.exc # "" THEN [exc |-> u.exc, yup |-> <<>>, ylo |-> <<>>]
                 ELSE IF l.exc # "" THEN [exc |-> l.exc, yup |-> <<>>, ylo |-> <<>>]
                 ELSE [exc |-> "", yup |-> u.val, ylo |-> l.val]

\* --------------------------------------------------------------- MsesMerge
\* a[...] = v on a numpy slice of n slots: v must have n values, or one value
\* that is repeated into every slot
CanAssign(n, m) == m = n \/ m = 1

Broadcast(v, n) == IF Len(v) = n THEN v ELSE [j \in 1..n |-> v[1]]

MergeRaised(e) == [exc |-> e, x |-> <<>>, y |-> <<>>]

\* the mutant of MsesMerge: the superseded test ylo[0] == yup[0] of line 82
MsesMergeEqualY(lo_x, up_x, lo_y, up_y) ==
    IF Len(lo_x) = 0 \/ Len(up_x) = 0
    THEN MergeRaised("IndexError")
    ELSE IF Py(lo_x, 0) = Py(up_x, 0) /\ Len(lo_y) = 0
    THEN MergeRaised("IndexError")
    ELSE IF Py(lo_x, 0) = Py(up_x, 0) /\ TRUE /\ Len(up_y) = 0
    THEN MergeRaised("IndexError")
    ELSE LET drop == Py(lo_x, 0) = Py(up_x, 0) /\ Py(lo_y, 0) = Py(up_y, 0)
             xl   == IF drop THEN PySliceFrom(lo_x, 1) ELSE lo_x
             yl   == IF drop THEN PySliceFrom(lo_y, 1) ELSE lo_y
             n1   == Len(up_x)
         IN  IF ~CanAssign(n1, Len(up_y)) \/ ~CanAssign(Len(xl), Len(yl))
             THEN MergeRaised("ValueError")
             ELSE [exc |-> "",
                   x   |-> PyReversed(up_x) \o xl,
                   y   |-> Broadcast(PyReversed(up_y), n1) \o Broadcast(yl, Len(xl))]

\* the mutant of MsesMerge: the upper surface is copied without reversal
MsesMergeForward(lo_x, up_x, lo_y, up_y) ==
    IF Len(lo_x) = 0 \/ Len(up_x) = 0
    THEN MergeRaised("IndexError")
    ELSE IF Py(lo_x, 0) = Py(up_x, 0) /\ Len(lo_y) = 0
    THEN MergeRaised("IndexError")
    ELSE IF Py(lo_x, 0) = Py(up_x, 0) /\ Py(lo_y, 0) = 0 /\ Len(up_y) = 0
    THEN MergeRaised("IndexError")
    ELSE LET drop == Py(lo_x, 0) = Py(up_x, 0) /\ Py(lo_y, 0) = 0 /\ Py(up_y, 0) = 0
             xl   == IF drop THEN PySliceFrom(lo_x, 1) ELSE lo_x
             yl   == IF drop THEN PySliceFrom(lo_y, 1) ELSE lo_y
             n1   == Len(up_x)
         IN  IF ~CanAssign(n1, Len(up_y)) \/ ~CanAssign(Len(xl), Len(yl))
             THEN MergeRaised("ValueError")
             ELSE [exc |-> "",
                   x   |-> up_x \o xl,
                   y   |-> Broadcast(up_y, n1) \o Broadcast(yl, Len(xl))]

\* if xlo[0] == xup[0] and ylo[0] == 0 and yup[0] == 0 (left to right, each
\* subscript raising IndexError on an empty sequence): drop the first lower
\* point; then fill x[:n1], y[:n1] with the reversed upper surface and
\* x[n1:], y[n1:] with the lower surface.
MsesMerge(lo_x, up_x, lo_y, up_y) ==
    IF Len(lo_x) = 0 \/ Len(up_x) = 0
    THEN MergeRaised("IndexError")
    ELSE IF Py(lo_x, 0) = Py(up_x, 0) /\ Len(lo_y) = 0
    THEN MergeRaised("IndexError")
    ELSE IF Py(lo_x, 0) = Py(up_x, 0) /\ Py(lo_y, 0) = 0 /\ Len(up_y) = 0
    THEN MergeRaised("IndexError")
    ELSE LET drop == Py(lo_x, 0) = Py(up_x, 0) /\ Py(lo_y, 0) = 0 /\ Py(up_y, 0) = 0
             xl   == IF drop THEN PySliceFrom(lo_x, 1) ELSE lo_x
             yl   == IF drop THEN PySliceFrom(lo_y, 1) ELSE lo_y
             n1   == Len(up_x)
         IN  IF ~CanAssign(n1, Len(up_y)) \/ ~CanAssign(Len(xl), Len(yl))
             THEN MergeRaised("ValueError")
             ELSE [exc |-> "",
                   x   |-> PyReversed(up_x) \o xl,
                   y   |-> Broadcast(PyReversed(up_y), n1) \o Broadcast(yl, Len(xl))]

\* ------------------------------------------------------------ the caller
\* x, y      : the curve the caller holds (ReadXfoilGeometry's two columns)
\* op, exc   : the function called last and the exception it raised
\* iLE       : what FindLE returned (to the caller, or inside MsesSplit)
\* xup .. ylo: the surfaces MsesSplit returned, the arguments of MsesMerge
\* xm, ym    : what MsesMerge returned
\* xout, yupInterp, yloInterp : MsesInterp's grid and what it returned
\*
\* A run is one call on the loaded curve (the functions are pure, so a second
\* call on the same curve returns what the first did), followed, after a
\* split that returned, by the merge of its surfaces as in main.

Cleared ==
    /\ xup' = <<>> /\ xlo' = <<>> /\ yup' = <<>> /\ ylo' = <<>>
    /\ xm' = <<>> /\ ym' = <<>>
    /\ xout' = <<>> /\ yupInterp' = <<>> /\ yloInterp' = <<>>

\* a curve of any shape, with a data column of any length
Init ==
    /\ x \in SeqsUpTo(XVals, MaxLen)
    /\ y \in SeqsUpTo(YVals, MaxLen)
    /\ op = "load" /\ exc = "" /\ iLE = NoneValue
    /\ xup = <<>> /\ xlo = <<>> /\ yup = <<>> /\ ylo = <<>>
    /\ xm = <<>> /\ ym = <<>>
    /\ xout = <<>> /\ yupInterp = <<>> /\ yloInterp = <<>>

\* x falls from top to bottom and rises again to last, one unit a step
Synthetic(top, bottom, last) ==
    [j \in 1..((top - bottom + 1) + (last - bottom)) |->
        IF j <= top - bottom + 1 THEN top + 1 - j ELSE bottom + (j - (top - bottom + 1))]

SyntheticCurves ==
    {Synthetic(top, bottom, last) :
        <<top, bottom, last>> \in {t \in (1..MaxPeak) \X (1..MaxPeak) \X (1..MaxPeak) :
                                      t[2] < t[1] /\ t[2] < t[3]}}

InitSynthetic ==
    /\ x \in SyntheticCurves
    /\ y = x
    /\ op = "load" /\ exc = "" /\ iLE = NoneValue
    /\ xup = <<>> /\ xlo = <<>> /\ yup = <<>> /\ ylo = <<>>
    /\ xm = <<>> /\ ym = <<>>
    /\ xout = <<>> /\ yupInterp = <<>> /\ yloInterp = <<>>

\* two surfaces of paired columns, handed to MsesMerge directly
InitSurfaces ==
    /\ x = <<>> /\ y = <<>>
    /\ xup \in NonEmptySeqsUpTo(XVals, MaxSurf)
    /\ yup \in {s \in NonEmptySeqsUpTo(YVals, MaxSurf) : Len(s) = Len(xup)}
    /\ xlo \in NonEmptySeqsUpTo(XVals, MaxSurf)
    /\ ylo \in {s \in NonEmptySeqsUpTo(YVals, MaxSurf) : Len(s) = Len(xlo)}
    /\ op = "surfaces" /\ exc = "" /\ iLE = NoneValue
    /\ xm = <<>> /\ ym = <<>>
    /\ xout = <<>> /\ yupInterp = <<>> /\ yloInterp = <<>>

CallFindLE ==
    /\ op = "load"
    /\ LET r == FindLE(x)
       IN  /\ op' = "FindLE"
           /\ exc' = r.exc
           /\ iLE' = r.ret
    /\ Cleared
    /\ UNCHANGED <<x, y>>

\* the caller splits both columns: MsesSplit(x, x) and MsesSplit(x, y)
CallMsesSplit ==
    /\ op = "load"
    /\ LET sx == MsesSplit(x, x)
           sy == MsesSplit(x, y)
       IN  /\ op' = "MsesSplit"
           /\ exc' = sx.exc
           /\ iLE' = IF sx.exc = "" THEN FindLE(x).ret ELSE NoneValue
           /\ xup' = sx.up /\ xlo' = sx.lo
           /\ yup' = sy.up /\ ylo' = sy.lo
    /\ xm' = <<>> /\ ym' = <<>>
    /\ xout' = <<>> /\ yupInterp' = <<>> /\ yloInterp' = <<>>
    /\ UNCHANGED <<x, y>>

\* the grids the caller asks for: an even grid over the x range (main's
\* np.linspace), one point either side of the range, and each surface's own
\* nodes
XoutChoices ==
    LET sx == MsesSplit(x, x)
    IN  {[j \in 1..MaxX |-> j], <<0, MaxX + 1>>}
        \cup (IF sx.exc = "" THEN {sx.up, sx.lo} ELSE {})

CallMsesInterp ==
    /\ op = "load"
    /\ \E xo \in XoutChoices :
         LET r == MsesInterp(xo, x, y)
         IN  /\ op' = "MsesInterp"
             /\ exc' = r.exc
             /\ xout' = xo
             /\ yupInterp' = r.yup
             /\ yloInterp' = r.ylo
    /\ iLE' = NoneValue
    /\ xup' = <<>> /\ xlo' = <<>> /\ yup' = <<>> /\ ylo' = <<>>
    /\ xm' = <<>> /\ ym' = <<>>
    /\ UNCHANGED <<x, y>>

\* MsesMerge(xlo, xup, ylo, yup) on the surfaces in hand
CallMsesMerge ==
    /\ \/ op = "surfaces"
       \/ op = "MsesSplit" /\ exc = ""
    /\ LET r == MsesMerge(xlo, xup, ylo, yup)
       IN  /\ op' = "MsesMerge"
           /\ exc' = r.exc
           /\ xm' = r.x
           /\ ym' = r.y
    /\ xout' = <<>> /\ yupInterp' = <<>> /\ yloInterp' = <<>>
    /\ UNCHANGED <<x, y, iLE, xup, xlo, yup, ylo>>

Next == CallFindLE \/ CallMsesSplit \/ CallMsesInterp \/ CallMsesMerge

NextSurfaces == CallMsesMerge

Spec == Init /\ [][Next]_vars

SpecSynthetic == InitSynthetic /\ [][Next]_vars

SpecSurfaces == InitSurfaces /\ [][NextSurfaces]_vars

\* ------------------------------------------------------------- the claims
StrictlyIncreasing(s) == \A i \in 1..(Len(s) - 1) : s[i] < s[i + 1]
NonDecreasing(s) == \A i \in 1..(Len(s) - 1) : s[i] <= s[i + 1]

\* s falls strictly to its position k (1-based) and never falls after it
TurnsAt(s, k) ==
    /\ \A i \in 1..(k - 1) : s[i] > s[i + 1]
    /\ \A i \in k..(Len(s) - 1) : s[i] <= s[i + 1]

\* MSES order: a leading edge that is not the last point
ValidMSES(s) == \E k \in 1..(Len(s) - 1) : TurnsAt(s, k)
\* MSES order with at least one falling step before the leading edge
ProperMSES(s) == \E k \in 2..(Len(s) - 1) : TurnsAt(s, k)

\* s without its element at the 1-based position p
RemoveAt(s, p) == [j \in 1..(Len(s) - 1) |-> IF j < p THEN s[j] ELSE s[j + 1]]

\* the merge that follows a split of the curve (x, y) of paired columns
MergedAfterSplit == op = "MsesMerge" /\ Len(x) > 0 /\ Len(y) = Len(x)

\* the leading-edge point (0-based iLE.i) and the first lower point coincide
\* in x and both have y = 0
DedupCase ==
    /\ Py(x, iLE.i + 1) = Py(x, iLE.i)
    /\ Py(y, iLE.i) = 0
    /\ Py(y, iLE.i + 1) = 0

\* C1: splitting a curve with MsesSplit(x, x) and MsesSplit(x, y) and merging
\* the four surfaces gives back (x, y) exactly, except in the de-duplication
\* case, where it gives (x, y) without the first lower-surface point, which
\* is then identical in x and y to the leading-edge point.
C1_RoundTrip ==
    MergedAfterSplit =>
        /\ exc = ""
        /\ IF DedupCase
           THEN /\ Py(y, iLE.i + 1) = Py(y, iLE.i)
                /\ xm = RemoveAt(x, iLE.i + 2)
                /\ ym = RemoveAt(y, iLE.i + 2)
           ELSE xm = x /\ ym = y

C1_Witness ==
    /\ MergedAfterSplit
    /\ ProperMSES(x)
    /\ DedupCase
    /\ Len(xm) = Len(x) - 1

\* C2: on paired columns MsesSplit returns Upper = y[iLE], y[iLE-1], .., y[0]
\* and Lower = y[iLE+1], .., y[end], so the lengths add up to len(y) and every
\* original position lands in exactly one place of one output.
C2_SplitPartition ==
    (op = "MsesSplit" /\ exc = "" /\ Len(y) = Len(x)) =>
        /\ Len(yup) = iLE.i + 1
        /\ \A j \in 0..iLE.i : Py(yup, j) = Py(y, iLE.i - j)
        /\ Len(ylo) = Len(y) - (iLE.i + 1)
        /\ \A j \in 0..(Len(ylo) - 1) : Py(ylo, j) = Py(y, iLE.i + 1 + j)
        /\ Len(yup) + Len(ylo) = Len(y)

C2_Witness ==
    /\ op = "MsesSplit" /\ exc = "" /\ Len(y) = Len(x)
    /\ Len(yup) >= 2 /\ Len(ylo) >= 2
    /\ yup # PyReversed(yup)

\* what MsesMerge's de-duplication test reads
MergeDrops == xlo[1] = xup[1] /\ ylo[1] = 0 /\ yup[1] = 0

PairedSurfaces ==
    /\ Len(xlo) > 0 /\ Len(xup) > 0
    /\ Len(xlo) = Len(ylo) /\ Len(xup) = Len(yup)

\* C3: on non-empty paired surfaces MsesMerge returns the upper surface
\* reversed followed by the lower surface, without the lower surface's first
\* point exactly when xlo[0] = xup[0], ylo[0] = 0 and yup[0] = 0; its length
\* is len(xup) + len(xlo), less one exactly when that point was dropped.
C3_MergeOutput ==
    (op = "MsesMerge" /\ PairedSurfaces) =>
        LET n1   == Len(xup)
            skip == IF MergeDrops THEN 1 ELSE 0
        IN  /\ exc = ""
            /\ Len(xm) = n1 + Len(xlo) - skip
            /\ Len(ym) = Len(xm)
            /\ \A j \in 1..n1 : xm[j] = xup[n1 + 1 - j] /\ ym[j] = yup[n1 + 1 - j]
            /\ \A j \in 1..(Len(xlo) - skip) :
                  xm[n1 + j] = xlo[j + skip] /\ ym[n1 + j] = ylo[j + skip]

C3_Witness ==
    /\ op = "MsesMerge" /\ PairedSurfaces /\ exc = ""
    /\ MergeDrops
    /\ Len(xup) >= 2 /\ Len(xlo) >= 2
    /\ xup[1] # xup[2]
    /\ Len(xm) = Len(xup) + Len(xlo) - 1

SyntheticNine == <<5, 4, 3, 2, 1, 2, 3, 4, 5>>

\* C4 as stated: on x = [5,4,3,2,1,2,3,4,5] FindLE returns index 3.
C4_ReturnsThree ==
    (op = "FindLE" /\ x = SyntheticNine) => (exc = "" /\ ~iLE.none /\ iLE.i = 3)

\* C4 as amended: on x = [5,4,3,2,1,2,3,4,5] FindLE returns index 4, the
\* 0-based position of the value 1, the minimum of x.
C4_ReturnsFour ==
    (op = "FindLE" /\ x = SyntheticNine) =>
        /\ exc = "" /\ ~iLE.none
        /\ iLE.i = 4
        /\ Py(x, iLE.i) = 1
        /\ \A p \in 0..(Len(x) - 1) : Py(x, p) >= Py(x, iLE.i)

C4_Witness ==
    /\ op = "FindLE" /\ x = SyntheticNine
    /\ ~iLE.none /\ iLE.i = 4

\* s has a falling run of at least one step that ends in a step that does
\* not fall
HasTransition(s) ==
    \E k \in 2..(Len(s) - 1) :
        /\ \A i \in 1..(k - 1) : s[i] > s[i + 1]
        /\ s[k + 1] >= s[k]

\* C5: FindLE ends in an error, never in an index or None, on every x without
\* a decreasing-to-non-decreasing transition (strictly decreasing throughout,
\* fewer than 2 points, or no falling step before the first step that does
\* not fall).
C5_RejectsMalformed ==
    (op = "FindLE" /\ ~HasTransition(x)) => exc # ""

\* C6: MsesSplit and MsesInterp end in an error whenever x and the paired
\* column differ in length, and MsesMerge whenever len(xlo) # len(ylo) or
\* len(xup) # len(yup).
C6_RejectsLengthMismatch ==
    /\ (op \in {"MsesSplit", "MsesInterp"} /\ Len(x) # Len(y)) => exc # ""
    /\ (op = "MsesMerge" /\ (Len(xlo) # Len(ylo) \/ Len(xup) # Len(yup))) => exc # ""

\* C7: on an x in MSES order both x surfaces MsesSplit(x, x) returns ascend:
\* the upper one strictly, the lower one without falling.
C7_MonotonicSplit ==
    (op = "MsesSplit" /\ ValidMSES(x)) =>
        /\ exc = ""
        /\ StrictlyIncreasing(xup)
        /\ NonDecreasing(xlo)

C7_Witness ==
    /\ op = "MsesSplit" /\ exc = ""
    /\ ProperMSES(x)
    /\ Len(xup) >= 2 /\ Len(xlo) >= 2
    /\ xlo[1] = xlo[2]

\* a successful MsesInterp call on a curve of paired columns in MSES order
InterpOnCurve(valid) == op = "MsesInterp" /\ exc = "" /\ valid /\ Len(y) = Len(x)

ExactValues(s) == [j \in 1..Len(s) |-> Exact(s[j])]

\* the 1-based position of the last node of xs equal to v
LastNodeAt(xs, v) ==
    CHOOSE p \in 1..Len(xs) : xs[p] = v /\ \A q \in (p + 1)..Len(xs) : xs[q] # v

\* C8 as stated: with xout the split upper surface's x nodes MsesInterp
\* returns exactly the split upper y values as yup, with xout the split lower
\* surface's x nodes exactly the split lower y values as ylo, repeated lower
\* x values included; each output has len(xout) values.
C8_ExactAtNodes ==
    InterpOnCurve(ProperMSES(x)) =>
        LET sx == MsesSplit(x, x)
            sy == MsesSplit(x, y)
        IN  /\ Len(yupInterp) = Len(xout) /\ Len(yloInterp) = Len(xout)
            /\ xout = sx.up => yupInterp = ExactValues(sy.up)
            /\ xout = sx.lo => yloInterp = ExactValues(sy.lo)

\* C8 as amended: with xout the split upper surface's x nodes MsesInterp
\* returns exactly the split upper y values as yup; with xout the split lower
\* surface's x nodes it returns as ylo, at each node, the split lower y value
\* of the last lower node with that x, so exactly the split lower y values
\* when the lower x nodes are strictly increasing; each output has len(xout)
\* values.
C8_ExactAtLastNode ==
    InterpOnCurve(ValidMSES(x)) =>
        LET sx == MsesSplit(x, x)
            sy == MsesSplit(x, y)
        IN  /\ Len(yupInterp) = Len(xout) /\ Len(yloInterp) = Len(xout)
            /\ xout = sx.up => yupInterp = ExactValues(sy.up)
            /\ xout = sx.lo =>
                  /\ \A j \in 1..Len(xout) :
                        yloInterp[j] = Exact(sy.lo[LastNodeAt(sx.lo, xout[j])])
                  /\ StrictlyIncreasing(sx.lo) => yloInterp = ExactValues(sy.lo)

C8_Witness ==
    /\ InterpOnCurve(ProperMSES(x))
    /\ xout = MsesSplit(x, x).lo
    /\ Len(xout) >= 2
    /\ xout[1] = xout[2]
    /\ yloInterp[1] = Exact(MsesSplit(x, y).lo[2])
    /\ yloInterp # ExactValues(MsesSplit(x, y).lo)

\* x falls strictly to its position k (1-based) and repeats there
PlateauAt(s, k) ==
    /\ k + 1 <= Len(s)
    /\ \A i \in 1..(k - 1) : s[i] > s[i + 1]
    /\ s[k + 1] = s[k]

\* C9: when the strict decrease of x ends in a repeated value, FindLE returns
\* the position of the first of the two equal points; MsesSplit ends the
\* upper surface there and starts the lower surface at the repeated point, so
\* the two points lie on different surfaces and xlo[0] = xup[0].
C9_PlateauSplits ==
    \A k \in 1..Len(x) :
        PlateauAt(x, k) =>
            /\ op = "FindLE" => (exc = "" /\ ~iLE.none /\ iLE.i = k - 1)
            /\ op = "MsesSplit" =>
                  /\ exc = "" /\ ~iLE.none /\ iLE.i = k - 1
                  /\ Len(xup) = k
                  /\ \A j \in 1..k : xup[j] = x[k + 1 - j]
                  /\ xlo = SubSeq(x, k + 1, Len(x))
                  /\ xlo[1] = xup[1]

C9_Witness ==
    /\ op = "MsesSplit" /\ exc = ""
    /\ \E k \in 2..Len(x) : PlateauAt(x, k)
    /\ xlo[1] = xup[1]
    /\ Len(xlo) >= 2

====
